---- MODULE Spec2Model ----
(***************************************************************************)
(* Model of the telegram-links backend: the Mongoose schema TelegramLink   *)
(* (src/unnamed/part_000) and the Express route handlers                   *)
(* (src/src/routes/telegramLinks.ts).                                      *)
(*                                                                         *)
(* The collection is the only shared state.  Every await of a handler is   *)
(* one store operation; a handler is a sequence of steps, one per store    *)
(* operation.  Spec runs one handler at a time (a single client that       *)
(* waits for each response); SpecList does the same with the requests that *)
(* exercise GET /; SpecConc lets the handlers of several clients           *)
(* interleave between their store operations.                              *)
(*                                                                         *)
(* Strings are sequences of runs [t |-> token, n |-> repetitions], kept in *)
(* normal form (n >= 1, adjacent runs differ in t), so that equality of    *)
(* encodings is equality of strings.  The tokens of a link are the pieces  *)
(* the schema's regular expression distinguishes; the tokens of an owner   *)
(* name are single characters.  Request bodies carry strings only.         *)
(***************************************************************************)
EXTENDS Integers, Sequences, FiniteSets

\* ------------------------------------------------------------- bounds
MaxId == 2          \* ObjectIds the model hands out
MaxTime == 1        \* last value of the millisecond clock

\* -------------------------------------------------- schema constants
MinOwnerLen == 2
MaxOwnerLen == 100

\* ------------------------------------------------------------ strings
SP == " "
Empty == <<>>

Str(tokens) == [i \in 1..Len(tokens) |-> [t |-> tokens[i], n |-> 1]]
Rep(ch, k) == IF k = 0 THEN <<>> ELSE <<[t |-> ch, n |-> k]>>

RECURSIVE StrLen(_)
StrLen(s) == IF s = <<>> THEN 0 ELSE Head(s).n + StrLen(Tail(s))

RECURSIVE TrimLeft(_)
TrimLeft(s) ==
    IF s # <<>> /\ Head(s).t = SP THEN TrimLeft(Tail(s)) ELSE s

RECURSIVE TrimRight(_)
TrimRight(s) ==
    IF s # <<>> /\ s[Len(s)].t = SP
    THEN TrimRight(SubSeq(s, 1, Len(s) - 1))
    ELSE s

\* String.prototype.trim, the setter `trim: true` installs on both paths.
Trim(s) == TrimRight(TrimLeft(s))

\* JavaScript truthiness of a string: only "" is falsy.
Truthy(s) == s # Empty

Lower(t) ==
    CASE t = "K" -> "k"
      [] t = "B" -> "b"
      [] t = "T.ME" -> "t.me"
      [] OTHER -> t

\* /^https?:\/\/(t\.me|telegram\.me)\/.+/.test(v)
\* At least one character follows the slash: the encoding has a fifth run.
LinkRegex(v) ==
    /\ Len(v) >= 5
    /\ v[1] \in {[t |-> "http", n |-> 1], [t |-> "https", n |-> 1]}
    /\ v[2] = [t |-> "://", n |-> 1]
    /\ v[3] \in {[t |-> "t.me", n |-> 1], [t |-> "telegram.me", n |-> 1]}
    /\ v[4] = [t |-> "/", n |-> 1]

\* The validators of the two paths, run on the values the setters produced.
\* required: a string path fails on the empty string.
ValidLink(v) == v # Empty /\ LinkRegex(v)
\* (fault: the maxlength validator is missing)
ValidOwnerNoMax(v) == v # Empty /\ StrLen(v) >= MinOwnerLen
ValidOwner(v) ==
    v # Empty /\ StrLen(v) >= MinOwnerLen /\ StrLen(v) <= MaxOwnerLen

\* ------------------------------------------------------------- inputs
LinkA == Str(<<"https", "://", "t.me", "/", "b">>)
LinkB == Str(<<"http", "://", "telegram.me", "/", "k">>)
LinkFtp == Str(<<"ftp", "://", "t.me", "/", "b">>)
LinkHost == Str(<<"https", "://", "x.org", "/", "b">>)
LinkNoPath == Str(<<"https", "://", "t.me", "/">>)
LinkC == Str(<<"https", "://", "telegram.me", "/", "B">>)
Blank == Rep(SP, 1)
Padded(s) == Blank \o s \o Blank
Trailing(s) == s \o Blank

Links ==
    {Empty, Blank, LinkA, Trailing(LinkA), Padded(LinkA), LinkB, LinkFtp,
     LinkHost, LinkNoPath}
Owners ==
    {Empty, Blank,
     Rep("b", MinOwnerLen - 1), Padded(Rep("b", MinOwnerLen - 1)),
     Rep("b", MinOwnerLen), Padded(Rep("b", MinOwnerLen)),
     Rep("K", MaxOwnerLen), Rep("K", MaxOwnerLen + 1)}

\* --------------------------------------------------- JavaScript numbers
Num(v) == [k |-> "num", v |-> v]
NaN == [k |-> "nan", v |-> 0]
Infinity == [k |-> "inf", v |-> 0]

Digits == {"0", "1", "2", "3", "4", "5", "6", "7", "8", "9"}
DigitVal(t) ==
    CASE t = "0" -> 0 [] t = "1" -> 1 [] t = "2" -> 2 [] t = "3" -> 3
      [] t = "4" -> 4 [] t = "5" -> 5 [] t = "6" -> 6 [] t = "7" -> 7
      [] t = "8" -> 8 [] t = "9" -> 9

RECURSIVE RunVal(_, _, _)
RunVal(acc, d, k) == IF k = 0 THEN acc ELSE RunVal(acc * 10 + d, d, k - 1)

\* The value of the longest prefix of digits of s, read after acc.
RECURSIVE DigitsVal(_, _)
DigitsVal(acc, s) ==
    IF s # <<>> /\ Head(s).t \in Digits
    THEN DigitsVal(RunVal(acc, DigitVal(Head(s).t), Head(s).n), Tail(s))
    ELSE acc

\* parseInt(string): leading white space, an optional sign, then digits up
\* to the first character that is no digit; NaN when there is no digit.
ParseIntStr(s) ==
    LET t == TrimLeft(s)
        signed == t # <<>> /\ Head(t).t \in {"-", "+"}
        body == IF ~signed THEN t
                ELSE IF Head(t).n > 1 THEN <<>> ELSE Tail(t)
        mag == DigitsVal(0, body)
    IN  IF body = <<>> \/ Head(body).t \notin Digits THEN NaN
        ELSE IF signed /\ Head(t).t = "-" THEN Num(0 - mag) ELSE Num(mag)

\* A query parameter: absent, or the string given.
Absent == [given |-> FALSE, s |-> Empty]
Given(s) == [given |-> TRUE, s |-> s]

\* const { page = 1, limit = 10 } = req.query; parseInt(page); parseInt(limit)
DefaultPage == 1
DefaultLimit == 10
ParsePage(q) == IF q.given THEN ParseIntStr(q.s) ELSE Num(DefaultPage)
ParseLimit(q) == IF q.given THEN ParseIntStr(q.s) ELSE Num(DefaultLimit)

\* (pageNum - 1) * limitNum
\* (fault: pages counted from 0)
SkipFromPage(pageNum, limitNum) ==
    IF pageNum.k = "nan" \/ limitNum.k = "nan" THEN NaN
    ELSE Num(pageNum.v * limitNum.v)
Skip(pageNum, limitNum) ==
    IF pageNum.k = "nan" \/ limitNum.k = "nan" THEN NaN
    ELSE Num((pageNum.v - 1) * limitNum.v)

\* Math.ceil(total / limitNum), total a count >= 0
TotalPages(total, limitNum) ==
    IF limitNum.k = "nan" THEN NaN
    ELSE IF limitNum.v = 0 THEN (IF total = 0 THEN NaN ELSE Infinity)
    ELSE IF limitNum.v > 0 THEN Num((total + limitNum.v - 1) \div limitNum.v)
    ELSE Num(0 - (total \div (0 - limitNum.v)))

\* ---------------------------------------------------------------- state
VARIABLES
    store,      \* the collection: _id -> document
    nextId,     \* the next ObjectId the driver generates
    now,        \* the clock, in milliseconds
    pc,         \* per client: the await its handler is suspended at
    req,        \* per client: the request being handled, or last answered
    telegramLinks,  \* per client: the page GET / has fetched
    res,        \* per client: the response to req, once sent
    created     \* history: the body and id of the latest successful create,
                \* until the next successful write

vars == <<store, nextId, now, pc, req, telegramLinks, res, created>>

Clients == {1, 2}
BadId == 0                      \* an id string no ObjectId can be cast from
Ids == 1..MaxId
ReqIds == {BadId} \cup Ids

NoPagination ==
    [currentPage |-> NaN, totalPages |-> NaN, totalItems |-> 0, itemsPerPage |-> NaN]
NoReq ==
    [op |-> "none", id |-> BadId, telegram_link |-> Empty, owner_name |-> Empty,
     page |-> Absent, limit |-> Absent, search |-> ""]
NoCreate == [id |-> BadId, telegram_link |-> Empty, owner_name |-> Empty]
NoRes ==
    [status |-> 0, error |-> "", data |-> <<>>, pagination |-> NoPagination,
     owners |-> {}]

Fail(status, error) == [NoRes EXCEPT !.status = status, !.error = error]
Ok(status, data) == [NoRes EXCEPT !.status = status, !.data = data]

Init ==
    /\ store = <<>>
    /\ nextId = 1
    /\ now = 0
    /\ pc = [c \in Clients |-> "idle"]
    /\ req = [c \in Clients |-> NoReq]
    /\ telegramLinks = [c \in Clients |-> <<>>]
    /\ res = [c \in Clients |-> NoRes]
    /\ created = NoCreate

\* The handler of client c sends res and completes.
Respond(c, r) ==
    /\ res' = [res EXCEPT ![c] = r]
    /\ pc' = [pc EXCEPT ![c] = "done"]
    /\ telegramLinks' = [telegramLinks EXCEPT ![c] = <<>>]

\* The handler of client c suspends at the await named at.
Await(c, at) ==
    /\ res' = [res EXCEPT ![c] = NoRes]
    /\ pc' = [pc EXCEPT ![c] = at]

\* ------------------------------------------------------ store operations
\* TelegramLink.findOne({ telegram_link }): the filter is cast with the
\* path's setters, so the value looked up is the trimmed one.
\* (fault: the filter is not cast, the raw value is looked up)
FindOneUntrimmed(st, link) ==
    \E i \in DOMAIN st : st[i].telegram_link = link
FindOne(st, link) ==
    \E i \in DOMAIN st : st[i].telegram_link = Trim(link)

\* TelegramLink.findOne({ telegram_link, _id: { $ne: id } })
\* (fault: the $ne condition on _id is missing)
FindOneOtherAny(st, link, id) ==
    \E i \in DOMAIN st : st[i].telegram_link = Trim(link)
FindOneOther(st, link, id) ==
    \E i \in DOMAIN st : i # id /\ st[i].telegram_link = Trim(link)

\* new TelegramLink({ telegram_link, owner_name }): the setters trim.
\* (fault: the schema lacks trim: true)
NewDocUntrimmed(link, owner) ==
    [telegram_link |-> link, owner_name |-> owner]
NewDoc(link, owner) ==
    [telegram_link |-> Trim(link), owner_name |-> Trim(owner)]

\* The document save() inserts: timestamps: true sets both dates to one
\* reading of the clock.
Inserted(doc, id, t) ==
    [id |-> id, telegram_link |-> doc.telegram_link,
     owner_name |-> doc.owner_name, createdAt |-> t, updatedAt |-> t]

\* The document findByIdAndUpdate leaves: $set of both paths and, from
\* timestamps: true, of updatedAt.
\* (fault: the update replaces the document, createdAt included)
UpdatedResetsCreated(old, doc, t) ==
    [old EXCEPT !.telegram_link = doc.telegram_link,
                !.owner_name = doc.owner_name,
                !.createdAt = t, !.updatedAt = t]
Updated(old, doc, t) ==
    [old EXCEPT !.telegram_link = doc.telegram_link,
                !.owner_name = doc.owner_name,
                !.updatedAt = t]

Put(st, id, d) == [i \in DOMAIN st \cup {id} |-> IF i = id THEN d ELSE st[i]]
\* (faults: the delete removes nothing; the delete removes every document)
RemoveKeeps(st, id) == st
RemoveAll(st, id) == [i \in {} |-> st[i]]
Remove(st, id) == [i \in DOMAIN st \ {id} |-> st[i]]

\* TelegramLink.find(query): the documents the $or of two case-insensitive
\* $regex conditions selects; an empty search leaves the query empty.  The
\* search terms used are tokens that occur inside no other token, so that
\* the substring match is a match of some run's token.
Contains(s, term) == \E i \in 1..Len(s) : Lower(s[i].t) = Lower(term)
Matching(st, search) ==
    {i \in DOMAIN st :
        \/ search = ""
        \/ Contains(st[i].telegram_link, search)
        \/ Contains(st[i].owner_name, search)}

\* .sort({ createdAt: -1 }): every order of the documents of S with createdAt
\* descending; documents with equal createdAt come in any order.
Sorted(st, S) ==
    {f \in [1..Cardinality(S) -> S] :
        /\ \A i, j \in 1..Cardinality(S) : i # j => f[i] # f[j]
        /\ \A i, j \in 1..Cardinality(S) :
              i < j => st[f[i]].createdAt >= st[f[j]].createdAt}

Min(a, b) == IF a <= b THEN a ELSE b

\* .skip(s).limit(l), s >= 0: limit 0 is no limit, a negative limit is the
\* limit of its absolute value.
Window(seq, s, l) ==
    LET n == IF l = 0 THEN Len(seq) ELSE IF l < 0 THEN 0 - l ELSE l
    IN  SubSeq(seq, s + 1, Min(Len(seq), s + n))

Docs(st, ord) == [i \in 1..Len(ord) |-> st[ord[i]]]

\* The outcomes of find(query).sort().skip(skip).limit(limitNum).  A negative
\* skip is rejected by the store.  What the store makes of a NaN is not
\* decided by this code: it may reject the query or return some window.
FindPage(st, search, skip, limitNum) ==
    LET S == Matching(st, search)
        N == Cardinality(S)
        err == [ok |-> FALSE, docs |-> <<>>]
    IN  IF skip.k = "nan" \/ limitNum.k = "nan"
        THEN {err} \cup
             {[ok |-> TRUE, docs |-> Docs(st, Window(ord, s, l))] :
                 ord \in Sorted(st, S), s \in 0..N, l \in 0..N}
        ELSE IF skip.v < 0 THEN {err}
        ELSE {[ok |-> TRUE, docs |-> Docs(st, Window(ord, skip.v, limitNum.v))] :
                 ord \in Sorted(st, S)}

\* TelegramLink.countDocuments(query)
CountDocuments(st, search) == Cardinality(Matching(st, search))

\* TelegramLink.distinct('owner_name')
Distinct(st) == {st[i].owner_name : i \in DOMAIN st}

\* --------------------------------------------------------------- handlers
\* GET /, up to the first await: parse the query, fetch the page.
GetList(c, page, limit, search) ==
    /\ pc[c] = "idle"
    /\ req' = [req EXCEPT ![c] =
                 [NoReq EXCEPT !.op = "list", !.page = page, !.limit = limit,
                               !.search = search]]
    /\ LET pageNum == ParsePage(page)
           limitNum == ParseLimit(limit)
       IN  \E out \in FindPage(store, search, Skip(pageNum, limitNum), limitNum) :
              IF out.ok
              THEN /\ Await(c, "count")
                   /\ telegramLinks' = [telegramLinks EXCEPT ![c] = out.docs]
              ELSE Respond(c, Fail(500, "Failed to fetch telegram links"))
    /\ UNCHANGED <<store, nextId, now, created>>

\* GET /, from countDocuments to the response.
ListCount(c) ==
    /\ pc[c] = "count"
    /\ LET pageNum == ParsePage(req[c].page)
           limitNum == ParseLimit(req[c].limit)
           total == CountDocuments(store, req[c].search)
       IN  Respond(c, [Ok(200, telegramLinks[c]) EXCEPT !.pagination =
                [currentPage |-> pageNum,
                 totalPages |-> TotalPages(total, limitNum),
                 totalItems |-> total,
                 itemsPerPage |-> limitNum]])
    /\ UNCHANGED <<store, nextId, now, req, created>>

\* GET /owners
GetOwners(c) ==
    /\ pc[c] = "idle"
    /\ req' = [req EXCEPT ![c] = [NoReq EXCEPT !.op = "owners"]]
    /\ Respond(c, [Ok(200, <<>>) EXCEPT !.owners = Distinct(store)])
    /\ UNCHANGED <<store, nextId, now, created>>

\* GET /:id
GetById(c, id) ==
    /\ pc[c] = "idle"
    /\ req' = [req EXCEPT ![c] = [NoReq EXCEPT !.op = "get", !.id = id]]
    /\ Respond(c,
         IF id = BadId THEN Fail(500, "Failed to fetch telegram link")
         ELSE IF id \notin DOMAIN store THEN Fail(404, "Telegram link not found")
         ELSE Ok(200, <<store[id]>>))
    /\ UNCHANGED <<store, nextId, now, created>>

\* POST /, up to the await of save(): the presence check and the duplicate
\* pre-check.
PostFindOne(c, link, owner) ==
    /\ pc[c] = "idle"
    /\ req' = [req EXCEPT ![c] =
                 [NoReq EXCEPT !.op = "post", !.telegram_link = link,
                               !.owner_name = owner]]
    /\ IF ~Truthy(link) \/ ~Truthy(owner)
       THEN Respond(c, Fail(400, "Both telegram_link and owner_name are required"))
       ELSE IF FindOne(store, link)
       THEN Respond(c, Fail(409, "Telegram link already exists"))
       ELSE /\ nextId + Cardinality({d \in Clients : pc[d] = "save"}) <= MaxId
            /\ Await(c, "save")
            /\ UNCHANGED telegramLinks
    /\ UNCHANGED <<store, nextId, now, created>>

\* (fault, or rather the fix: save() against a unique index on telegram_link.
\* The insert of a stored link fails with a duplicate-key error, which is no
\* ValidationError.)
PostSaveUniqueIndex(c) ==
    /\ pc[c] = "save"
    /\ LET doc == NewDoc(req[c].telegram_link, req[c].owner_name)
       IN  IF ~ValidLink(doc.telegram_link) \/ ~ValidOwner(doc.owner_name)
           THEN /\ Respond(c, Fail(400, "Validation error"))
                /\ UNCHANGED <<store, nextId, created>>
           ELSE IF FindOne(store, doc.telegram_link)
           THEN /\ Respond(c, Fail(500, "Failed to create telegram link"))
                /\ UNCHANGED <<store, nextId, created>>
           ELSE LET saved == Inserted(doc, nextId, now)
                IN  /\ store' = Put(store, nextId, saved)
                    /\ nextId' = nextId + 1
                    /\ created' = [id |-> nextId,
                                   telegram_link |-> req[c].telegram_link,
                                   owner_name |-> req[c].owner_name]
                    /\ Respond(c, Ok(201, <<saved>>))
    /\ UNCHANGED <<now, req>>

\* POST /, save(): validation, then the insert.  The collection's index on
\* telegram_link is not unique, so the insert itself never fails.
PostSave(c) ==
    /\ pc[c] = "save"
    /\ LET doc == NewDoc(req[c].telegram_link, req[c].owner_name)
       IN  IF ~ValidLink(doc.telegram_link) \/ ~ValidOwner(doc.owner_name)
           THEN /\ Respond(c, Fail(400, "Validation error"))
                /\ UNCHANGED <<store, nextId, created>>
           ELSE LET saved == Inserted(doc, nextId, now)
                IN  /\ store' = Put(store, nextId, saved)
                    /\ nextId' = nextId + 1
                    /\ created' = [id |-> nextId,
                                   telegram_link |-> req[c].telegram_link,
                                   owner_name |-> req[c].owner_name]
                    /\ Respond(c, Ok(201, <<saved>>))
    /\ UNCHANGED <<now, req>>

\* PUT /:id, up to the await of findByIdAndUpdate: the presence check and the
\* duplicate pre-check, whose _id condition fails to cast for a malformed id.
PutFindOne(c, id, link, owner) ==
    /\ pc[c] = "idle"
    /\ req' = [req EXCEPT ![c] =
                 [NoReq EXCEPT !.op = "put", !.id = id, !.telegram_link = link,
                               !.owner_name = owner]]
    /\ IF ~Truthy(link) \/ ~Truthy(owner)
       THEN Respond(c, Fail(400, "Both telegram_link and owner_name are required"))
       ELSE IF id = BadId
       THEN Respond(c, Fail(500, "Failed to update telegram link"))
       ELSE IF FindOneOther(store, link, id)
       THEN Respond(c, Fail(409, "Telegram link already exists"))
       ELSE /\ Await(c, "update")
            /\ UNCHANGED telegramLinks
    /\ UNCHANGED <<store, nextId, now, created>>

\* PUT /:id, findByIdAndUpdate with runValidators: the update validators run
\* before the store is asked; then one atomic find-and-modify.
PutUpdate(c) ==
    /\ pc[c] = "update"
    /\ LET id == req[c].id
           doc == NewDoc(req[c].telegram_link, req[c].owner_name)
       IN  IF ~ValidLink(doc.telegram_link) \/ ~ValidOwner(doc.owner_name)
           THEN /\ Respond(c, Fail(400, "Validation error"))
                /\ UNCHANGED <<store, created>>
           ELSE IF id \notin DOMAIN store
           THEN /\ Respond(c, Fail(404, "Telegram link not found"))
                /\ UNCHANGED <<store, created>>
           ELSE LET new == Updated(store[id], doc, now)
                IN  /\ store' = Put(store, id, new)
                    /\ created' = NoCreate
                    /\ Respond(c, Ok(200, <<new>>))
    /\ UNCHANGED <<nextId, now, req>>

\* DELETE /:id
Delete(c, id) ==
    /\ pc[c] = "idle"
    /\ req' = [req EXCEPT ![c] = [NoReq EXCEPT !.op = "delete", !.id = id]]
    /\ IF id = BadId
       THEN /\ Respond(c, Fail(500, "Failed to delete telegram link"))
            /\ UNCHANGED <<store, created>>
       ELSE IF id \notin DOMAIN store
       THEN /\ Respond(c, Fail(404, "Telegram link not found"))
            /\ UNCHANGED <<store, created>>
       ELSE /\ store' = Remove(store, id)
            /\ created' = NoCreate
            /\ Respond(c, Ok(200, <<>>))
    /\ UNCHANGED <<nextId, now>>

\* The client of c has read the response; it may send its next request.
Receive(c) ==
    /\ pc[c] = "done"
    /\ pc' = [pc EXCEPT ![c] = "idle"]
    /\ req' = [req EXCEPT ![c] = NoReq]
    /\ res' = [res EXCEPT ![c] = NoRes]
    /\ UNCHANGED <<store, nextId, now, telegramLinks, created>>

\* The clock advances.
Tick ==
    /\ now < MaxTime
    /\ now' = now + 1
    /\ UNCHANGED <<store, nextId, pc, req, telegramLinks, res, created>>

\* ------------------------------------------------------------ environments
Q(tokens) == Given(Str(tokens))

\* Request bodies that exercise the schema, and a few queries.
Pages == {Absent, Q(<<"2">>)}
Limits == {Absent, Q(<<"1">>)}
Searches == {"", "b"}

\* Queries that exercise the pagination, over valid bodies only.
ListLinks == {LinkA, LinkB, LinkC}
ListOwners == {Rep("K", MaxOwnerLen)}
ListPages == {Absent, Q(<<"2">>), Q(<<" ", "3", "x">>), Q(<<"0">>), Q(<<"x">>)}
ListLimits == {Absent, Q(<<"1">>), Q(<<"2", ".", "9">>), Q(<<"0">>), Q(<<"-", "1">>)}
ListSearches == {"", "b", "K"}

\* Bodies for interleaved handlers.
ConcLinks == {LinkA, LinkB}
ConcOwners == {Rep("b", MinOwnerLen)}
ConcPages == {Absent}
ConcLimits == {Q(<<"1">>)}
ConcSearches == {""}

\* A request arrives for client c and its handler runs to its first await.
Request(c, links, owners, pages, limits, searches) ==
    \/ \E p \in pages, l \in limits, s \in searches : GetList(c, p, l, s)
    \/ GetOwners(c)
    \/ \E id \in ReqIds : GetById(c, id)
    \/ \E link \in links, owner \in owners : PostFindOne(c, link, owner)
    \/ \E id \in ReqIds, link \in links, owner \in owners :
          PutFindOne(c, id, link, owner)
    \/ \E id \in ReqIds : Delete(c, id)

\* A suspended handler resumes, or its response is read.
Resume(c) ==
    \/ ListCount(c)
    \/ PostSave(c)
    \/ PutUpdate(c)
    \/ Receive(c)

AllIdle == \A c \in Clients : pc[c] = "idle"

\* One request at a time: client 1 sends its next request only after it has
\* read the response to the last one.
Next ==
    \/ Tick
    \/ AllIdle /\ Request(1, Links, Owners, Pages, Limits, Searches)
    \/ Resume(1)

NextList ==
    \/ Tick
    \/ AllIdle /\ Request(1, ListLinks, ListOwners, ListPages, ListLimits, ListSearches)
    \/ Resume(1)

\* Handlers of all clients interleave at their awaits, within one reading of
\* the clock.
NextConc ==
    \/ \E c \in Clients :
          \/ Request(c, ConcLinks, ConcOwners, ConcPages, ConcLimits, ConcSearches)
          \/ Resume(c)

Spec == Init /\ [][Next]_vars
SpecList == Init /\ [][NextList]_vars
SpecConc == Init /\ [][NextConc]_vars

\* ================================================================ claims
\* The latest request of client c has been answered.
Sent(c) == pc[c] = "done"

\* This step sends the response of client c's handler.
Answers(c) == pc[c] # "done" /\ pc'[c] = "done"

BothPresent(r) == r.telegram_link # Empty /\ r.owner_name # Empty
OwnerInRange(s) == StrLen(s) >= MinOwnerLen /\ StrLen(s) <= MaxOwnerLen
HeldBy(st, link) == {i \in DOMAIN st : st[i].telegram_link = link}

\* ------------------------------------------------------------------ C1
UniqueLinks ==
    \A i, j \in DOMAIN store :
        i # j => store[i].telegram_link # store[j].telegram_link

\* C1: with one handler at a time, no two stored records ever have the same
\* link, and a create carrying both fields whose link equals the link of a
\* stored record is answered 409 and leaves the store as it was.
C1_UniqueLinks ==
    /\ []UniqueLinks
    /\ [][\A c \in Clients :
             (/\ Answers(c)
              /\ req'[c].op = "post"
              /\ BothPresent(req'[c])
              /\ HeldBy(store, req'[c].telegram_link) # {})
             => res'[c].status = 409 /\ store' = store]_vars

C1_Witness ==
    /\ Cardinality(DOMAIN store) = 2
    /\ Sent(1) /\ req[1].op = "post" /\ res[1].status = 409
    /\ HeldBy(store, req[1].telegram_link) # {}

\* ------------------------------------------------------------------ C2
\* C2: between the duplicate pre-check and the write nothing checks the link
\* again: when handlers interleave, a save or an update that resumes with
\* valid fields succeeds and writes its link even if another handler has
\* stored the same link since the pre-check.
C2_WriteAfterPrecheckSucceeds ==
    [][\A c \in Clients :
          LET link == Trim(req[c].telegram_link)
              owner == Trim(req[c].owner_name)
              valid == LinkRegex(link) /\ OwnerInRange(owner)
          IN  /\ (pc[c] = "save" /\ pc'[c] = "done" /\ valid)
                 => /\ res'[c].status = 201
                    /\ Cardinality(HeldBy(store', link))
                          = Cardinality(HeldBy(store, link)) + 1
              /\ (/\ pc[c] = "update" /\ pc'[c] = "done" /\ valid
                  /\ req[c].id \in DOMAIN store)
                 => /\ res'[c].status = 200
                    /\ store'[req[c].id].telegram_link = link]_vars

\* Two creates with one link were both answered 201 and both records are
\* stored.
C2_Witness ==
    /\ Sent(1) /\ req[1].op = "post" /\ res[1].status = 201
    /\ Sent(2) /\ req[2].op = "post" /\ res[2].status = 201
    /\ res[1].data[1].id # res[2].data[1].id
    /\ {res[1].data[1].id, res[2].data[1].id} \subseteq DOMAIN store
    /\ store[res[1].data[1].id].telegram_link
          = store[res[2].data[1].id].telegram_link

\* ------------------------------------------------------------------ C3
\* C3: an update with both fields present on an id that no stored record
\* has is answered 404, whatever the body.
C3_UpdateOfMissingIdIs404 ==
    \A c \in Clients :
        (/\ Sent(c)
         /\ req[c].op = "put"
         /\ req[c].id \in Ids
         /\ req[c].id \notin DOMAIN store
         /\ BothPresent(req[c]))
        => res[c].status = 404

\* ------------------------------------------------------------------ C4
\* C4 as stated: a getById of the id of the latest create, issued before any
\* other write, returns the link and owner name exactly as submitted.
C4_ExactRoundTrip ==
    \A c \in Clients :
        (/\ Sent(c) /\ req[c].op = "get"
         /\ created.id # BadId /\ req[c].id = created.id
         /\ LinkRegex(created.telegram_link)
         /\ OwnerInRange(Trim(created.owner_name)))
        => /\ res[c].status = 200
           /\ res[c].data[1].telegram_link = created.telegram_link
           /\ res[c].data[1].owner_name = created.owner_name

\* C4 amended: a create whose fields are valid once trimmed and whose trimmed
\* link is not stored is answered 201 with an id never handed out before, and
\* a getById of that id before any other write is answered 200 with the
\* submitted link and owner name with surrounding white space removed, and
\* with id, createdAt and updatedAt set.
C4_TrimmedRoundTrip ==
    [][\A c \in Clients :
          Answers(c) =>
            /\ (/\ req'[c].op = "post"
                /\ BothPresent(req'[c])
                /\ LinkRegex(Trim(req'[c].telegram_link))
                /\ OwnerInRange(Trim(req'[c].owner_name))
                /\ HeldBy(store, Trim(req'[c].telegram_link)) = {})
               => /\ res'[c].status = 201
                  /\ LET d == res'[c].data[1]
                     IN  /\ d.id \in Ids
                         /\ d.id \notin (1..(nextId - 1)) \cup DOMAIN store
                         /\ d.id \in DOMAIN store' /\ store'[d.id] = d
                         /\ d.telegram_link = Trim(req'[c].telegram_link)
                         /\ d.owner_name = Trim(req'[c].owner_name)
            /\ (/\ req'[c].op = "get"
                /\ created.id # BadId /\ req'[c].id = created.id)
               => /\ res'[c].status = 200
                  /\ LET d == res'[c].data[1]
                     IN  /\ d.id = created.id
                         /\ d.telegram_link = Trim(created.telegram_link)
                         /\ d.owner_name = Trim(created.owner_name)
                         /\ d.createdAt \in 0..now
                         /\ d.updatedAt \in 0..now]_vars

C4_Witness ==
    /\ Sent(1) /\ req[1].op = "get" /\ res[1].status = 200
    /\ created.id # BadId /\ req[1].id = created.id
    /\ created.owner_name # Trim(created.owner_name)
    /\ created.telegram_link # Trim(created.telegram_link)
    /\ res[1].data[1].owner_name = Trim(created.owner_name)

\* ------------------------------------------------------------------ C5
\* Ids that were handed out and are no longer stored: the deleted ones.
Gone == (1..(nextId - 1)) \ DOMAIN store

\* C5: a delete answered 200 removes the record; an id once deleted is never
\* stored again, and every later getById, delete, and update with valid
\* fields and a link no record holds, on that id is answered 404.
C5_DeletedStaysGone ==
    [][/\ \A i \in Gone : i \notin DOMAIN store'
       /\ \A c \in Clients :
             Answers(c) =>
               /\ (req'[c].op = "delete" /\ res'[c].status = 200)
                     => req'[c].id \notin DOMAIN store'
               /\ (req'[c].op \in {"get", "delete"} /\ req'[c].id \in Gone)
                     => res'[c].status = 404
               /\ (/\ req'[c].op = "put"
                   /\ req'[c].id \in Gone
                   /\ LinkRegex(Trim(req'[c].telegram_link))
                   /\ OwnerInRange(Trim(req'[c].owner_name))
                   /\ HeldBy(store, Trim(req'[c].telegram_link)) = {})
                     => res'[c].status = 404]_vars

C5_Witness ==
    /\ Sent(1) /\ req[1].op = "put" /\ res[1].status = 404
    /\ req[1].id \in Gone
    /\ DOMAIN store # {}

\* ------------------------------------------------------------------ C6
AllRecordsValid ==
    \A i \in DOMAIN store :
        /\ LinkRegex(store[i].telegram_link)
        /\ OwnerInRange(Trim(store[i].owner_name))

Max(a, b) == IF a >= b THEN a ELSE b
Ceil(n, d) == CHOOSE k \in 0..n : k * d >= n /\ (k - 1) * d < n

\* C7: with one handler at a time, the list of page p >= 1 with page size
\* L >= 1 over the N matching records is answered 200 with
\* min(L, max(0, N - (p-1)L)) records, the j-th of them at position (p-1)L + j
\* of the matching records by createdAt descending, and with totalItems N,
\* totalPages ceil(N/L), currentPage p and itemsPerPage L.
C7_Pagination ==
    \A c \in Clients :
        (Sent(c) /\ req[c].op = "list")
        => LET p == ParsePage(req[c].page)
               L == ParseLimit(req[c].limit)
               S == Matching(store, req[c].search)
               N == Cardinality(S)
               data == res[c].data
           IN  (p.k = "num" /\ L.k = "num" /\ p.v >= 1 /\ L.v >= 1)
               => /\ res[c].status = 200
                  /\ Len(data) = Min(L.v, Max(0, N - (p.v - 1) * L.v))
                  /\ \A j \in 1..Len(data) :
                        LET at == (p.v - 1) * L.v + j
                            newer == {i \in S : store[i].createdAt > data[j].createdAt}
                            notOlder == {i \in S : store[i].createdAt >= data[j].createdAt}
                        IN  /\ data[j].id \in S
                            /\ data[j] = store[data[j].id]
                            /\ Cardinality(newer) < at
                            /\ at <= Cardinality(notOlder)
                  /\ \A j, k \in 1..Len(data) : j # k => data[j].id # data[k].id
                  /\ res[c].pagination =
                        [currentPage |-> Num(p.v), totalPages |-> Num(Ceil(N, L.v)),
                         totalItems |-> N, itemsPerPage |-> Num(L.v)]

\* The second page of size one over two matching records.
C7_Witness ==
    /\ Sent(1) /\ req[1].op = "list" /\ res[1].status = 200
    /\ ParsePage(req[1].page) = Num(2)
    /\ ParseLimit(req[1].limit) = Num(1)
    /\ Cardinality(Matching(store, req[1].search)) = 2
    /\ Cardinality(DOMAIN store) = 2
    /\ req[1].search # ""
    /\ Len(res[1].data) = 1
    /\ \E i \in DOMAIN store : store[i].createdAt > res[1].data[1].createdAt

\* ------------------------------------------------------------------ C8
\* C8: updatedAt >= createdAt in every stored record; a create sets both to
\* the time of the create; a successful update sets updatedAt to the time of
\* the update and keeps createdAt and the id; nothing else changes them.
C8_Timestamps ==
    /\ [](\A i \in DOMAIN store : store[i].updatedAt >= store[i].createdAt)
    /\ [][/\ \A c \in Clients :
             Answers(c) =>
               /\ (req'[c].op = "post" /\ res'[c].status = 201)
                  => LET n == res'[c].data[1].id
                     IN  /\ n \notin DOMAIN store
                         /\ store'[n].createdAt = now
                         /\ store'[n].updatedAt = now
               /\ (req'[c].op = "put" /\ res'[c].status = 200)
                  => LET id == req'[c].id
                     IN  /\ store'[id].updatedAt = now
                         /\ store'[id].createdAt = store[id].createdAt
                         /\ store'[id].id = store[id].id
       /\ \A i \in DOMAIN store \cap DOMAIN store' :
             (\/ store'[i].createdAt # store[i].createdAt
              \/ store'[i].updatedAt # store[i].updatedAt
              \/ store'[i].id # store[i].id)
             => \E c \in Clients :
                   /\ Answers(c) /\ req'[c].op = "put" /\ res'[c].status = 200
                   /\ req'[c].id = i
                   /\ store'[i].createdAt = store[i].createdAt
                   /\ store'[i].id = store[i].id]_vars

C8_Witness ==
    /\ Sent(1) /\ req[1].op = "put" /\ res[1].status = 200
    /\ store[req[1].id].updatedAt > store[req[1].id].createdAt
    /\ store[req[1].id].updatedAt = now

\* ------------------------------------------------------------------ C9
\* C9: an update of a stored id whose link another record holds is answered
\* 409 and changes nothing; an update of a stored id that carries the
\* record's own link and a valid owner name is answered 200 and replaces the
\* owner name.
C9_DuplicateCheckExcludesSelf ==
    [][\A c \in Clients :
          (/\ Answers(c)
           /\ req'[c].op = "put"
           /\ req'[c].id \in DOMAIN store
           /\ BothPresent(req'[c]))
          => LET id == req'[c].id
                 link == Trim(req'[c].telegram_link)
                 owner == Trim(req'[c].owner_name)
             IN  /\ HeldBy(store, link) \ {id} # {}
                    => res'[c].status = 409 /\ store' = store
                 /\ (store[id].telegram_link = link /\ OwnerInRange(owner))
                    => /\ res'[c].status = 200
                       /\ store'[id].telegram_link = link
                       /\ store'[id].owner_name = owner]_vars

C9_Witness ==
    /\ Sent(1) /\ req[1].op = "put" /\ res[1].status = 409
    /\ req[1].id \in DOMAIN store
    /\ HeldBy(store, Trim(req[1].telegram_link)) \ {req[1].id} # {}

\* ----------------------------------------------------------------- C10
Others(c) == {i \in DOMAIN store : i # req'[c].id}
SameElsewhere(S) == \A i \in S : i \in DOMAIN store' /\ store'[i] = store[i]

\* What a successful write of client c changes: exactly one record.
OneRecordChanged(c) ==
    LET id == req'[c].id
    IN  CASE req'[c].op = "post" ->
               \E n \in DOMAIN store' \ DOMAIN store :
                  /\ DOMAIN store' = DOMAIN store \cup {n}
                  /\ SameElsewhere(DOMAIN store)
          [] req'[c].op = "put" ->
               /\ id \in DOMAIN store
               /\ DOMAIN store' = DOMAIN store
               /\ SameElsewhere(Others(c))
               /\ store'[id] =
                     [store[id] EXCEPT
                        !.telegram_link = store'[id].telegram_link,
                        !.owner_name = store'[id].owner_name,
                        !.updatedAt = store'[id].updatedAt]
          [] req'[c].op = "delete" ->
               /\ id \in DOMAIN store
               /\ DOMAIN store' = DOMAIN store \ {id}
               /\ SameElsewhere(Others(c))
          [] OTHER -> FALSE

\* C10: a request answered with a failure status, and every GET, leaves the
\* store as it was; a successful create, update or delete changes exactly
\* one record; nothing else changes the store.
C10_Frame ==
    [][/\ store' # store
          => \E c \in Clients : Answers(c) /\ res'[c].status \in {200, 201}
       /\ \A c \in Clients :
             Answers(c) =>
               /\ res'[c].status \notin {200, 201} => store' = store
               /\ req'[c].op \in {"list", "owners", "get"} => store' = store
               /\ (res'[c].status \in {200, 201}
                   /\ req'[c].op \in {"post", "put", "delete"})
                  => OneRecordChanged(c)]_vars

C10_Witness ==
    /\ Sent(1) /\ req[1].op = "delete" /\ res[1].status = 200
    /\ Cardinality(DOMAIN store) = 1
    /\ nextId = MaxId + 1

====
